---- MODULE Spec2Model ----
(***************************************************************************)
(* peaks_to_bedgraph.py: one bedGraph file per value column of a TSV of    *)
(* counts, with the coordinates taken from a headerless BED annotation.    *)
(*                                                                         *)
(* Strings are sequences of tokens: a token is either one of the three     *)
(* characters csv treats specially (TAB, NL, QUOTE) or an atomic run of    *)
(* ordinary characters ("chr1", "10").  A file's text is one such sequence.*)
(* A DataFrame is a record [columns, rows]: columns is the sequence of     *)
(* column labels, rows a sequence of functions from label to cell.         *)
(* pandas is modelled as of version >= 1.0 (.loc raises KeyError on a      *)
(* missing label) with merge keeping the left row order.                   *)
(***************************************************************************)
EXTENDS Integers, Sequences, FiniteSets, TLC

VARIABLES arg, tsvFile, bedFile, fs, tsv, bed, pc, i, error

vars == <<arg, tsvFile, bedFile, fs, tsv, bed, pc, i, error>>

----------------------------------------------------------------------------
(* Bounds of the model *)

MaxCols == 3
MaxTsvRows == 2
MaxBedRows == 2
MaxFmtRows == 2
MaxPathLen == 4

----------------------------------------------------------------------------
(* Text *)

TAB == "\t"
NL == "\n"
QUOTE == "\""
SLASH == "/"

Range(s) == {s[n] : n \in 1..Len(s)}

RECURSIVE Flatten(_)
Flatten(ss) == IF ss = <<>> THEN <<>> ELSE Head(ss) \o Flatten(Tail(ss))

\* str.split(sep) on a token sequence: always at least one (possibly empty) piece
RECURSIVE Split(_, _)
Split(s, sep) ==
    IF s = <<>> THEN << <<>> >>
    ELSE LET rest == Split(Tail(s), sep)
         IN  IF Head(s) = sep THEN << <<>> >> \o rest
             ELSE << <<Head(s)>> \o Head(rest) >> \o Tail(rest)

----------------------------------------------------------------------------
(* DataFrames *)

KEY == "peak_id"
BedNames == <<"Chromosome", "Start", "End", "peak_id">>

Frame(cols, rows) == [columns |-> cols, rows |-> rows]
Unloaded == Frame(<<>>, <<>>)

Ok(df) == [err |-> "none", df |-> df]
Raise(kind) == [err |-> kind, df |-> Unloaded]

Count(cols, name) == Cardinality({n \in 1..Len(cols) : cols[n] = name})

Restrict(row, names) == [c \in names |-> row[c]]

\* df[[a, b]]: a new frame holding the listed columns; KeyError on a missing label
Select(df, names) ==
    IF \E n \in 1..Len(names) : names[n] \notin Range(df.columns)
    THEN Raise("KeyError")
    ELSE Ok(Frame(names, [r \in 1..Len(df.rows) |-> Restrict(df.rows[r], Range(names))]))

\* the label a non-key column gets in the merge result: labels present on both
\* sides get the suffixes _x (left) and _y (right)
MergedLabel(name, other, on, suffix) ==
    IF name # on /\ name \in Range(other.columns) THEN name \o suffix ELSE name

MergedRow(lrow, rrow, left, right, on) ==
    LET lcols == {c \in Range(left.columns) : c # on}
        rcols == {c \in Range(right.columns) : c # on}
        lmap == [c \in lcols |-> MergedLabel(c, right, on, "_x")]
        rmap == [c \in rcols |-> MergedLabel(c, left, on, "_y")]
        labels == {on} \cup {lmap[c] : c \in lcols} \cup {rmap[c] : c \in rcols}
    IN  [l \in labels |->
            IF l = on THEN lrow[on]
            ELSE IF \E c \in lcols : lmap[c] = l
                 THEN lrow[CHOOSE c \in lcols : lmap[c] = l]
                 ELSE rrow[CHOOSE c \in rcols : rmap[c] = l]]

\* Variant of Matches: a key lookup that stops at the first annotation row
FirstMatch(lrow, rrows, left, right, on) ==
    LET hits == {n \in 1..Len(rrows) : rrows[n][on] = lrow[on]}
    IN  IF hits = {} THEN <<>>
        ELSE <<MergedRow(lrow, rrows[CHOOSE n \in hits : \A m \in hits : n <= m],
                         left, right, on)>>

\* the rows of right whose key equals that of lrow, in right's order
RECURSIVE Matches(_, _, _, _, _)
Matches(lrow, rrows, left, right, on) ==
    IF rrows = <<>> THEN <<>>
    ELSE (IF Head(rrows)[on] = lrow[on]
          THEN <<MergedRow(lrow, Head(rrows), left, right, on)>>
          ELSE <<>>) \o Matches(lrow, Tail(rrows), left, right, on)

RECURSIVE InnerRows(_, _, _, _)
InnerRows(lrows, left, right, on) ==
    IF lrows = <<>> THEN <<>>
    ELSE Matches(Head(lrows), right.rows, left, right, on)
         \o InnerRows(Tail(lrows), left, right, on)

MergedColumns(left, right, on) ==
    [n \in 1..Len(left.columns) |-> MergedLabel(left.columns[n], right, on, "_x")]
    \o SelectSeq([n \in 1..Len(right.columns) |->
                    MergedLabel(right.columns[n], left, on, "_y")],
                 LAMBDA c : c # on)

\* Variant of pd_merge: how='left', every left row is kept and one without a
\* partner gets blank coordinates
pd_merge_left(left, right, on) ==
    LET blank == [c \in Range(right.columns) |->
                    IF c = on THEN <<>> ELSE IF c = "Chromosome" THEN <<>> ELSE 0]
        rowsOf(lrow) ==
            LET m == Matches(lrow, right.rows, left, right, on)
            IN  IF m = <<>> THEN <<MergedRow(lrow, blank, left, right, on)>> ELSE m
    IN  IF Count(left.columns, on) # 1 \/ Count(right.columns, on) # 1
        THEN Raise("KeyError")
        ELSE Ok(Frame(MergedColumns(left, right, on),
                      Flatten([n \in 1..Len(left.rows) |-> rowsOf(left.rows[n])])))

\* pd.merge(left, right, on=[on]): inner join, one row per pair of equal keys;
\* rows of either side without a partner are left out
pd_merge(left, right, on) ==
    IF Count(left.columns, on) = 0 \/ Count(right.columns, on) = 0
    THEN Raise("KeyError")
    ELSE IF Count(left.columns, on) > 1 \/ Count(right.columns, on) > 1
    THEN Raise("ValueError")
    ELSE Ok(Frame(MergedColumns(left, right, on), InnerRows(left.rows, left, right, on)))

\* df.drop([name], axis=1): the frame without that column
Drop(df, name) ==
    IF name \notin Range(df.columns) THEN Raise("KeyError")
    ELSE Ok(Frame(SelectSeq(df.columns, LAMBDA c : c # name),
                  [r \in 1..Len(df.rows) |->
                      Restrict(df.rows[r], Range(df.columns) \ {name})]))

\* df.loc[:, names]: the listed columns in the listed order
Loc(df, names) == Select(df, names)

----------------------------------------------------------------------------
(* Input files and the loader *)

\* A delimited file on disk, already split into fields: header is the first line
\* of a file that has one (the value table), rows are the data lines.
File(header, rows) == [exists |-> TRUE, header |-> header, rows |-> rows]
NoFile == [exists |-> FALSE, header |-> <<>>, rows |-> <<>>]

\* Variant of read_csv: a missing file is taken for a table without rows
read_csv_or_empty(file, names) ==
    IF ~file.exists \/ (file.header = <<>> /\ file.rows = <<>>)
    THEN Ok(Frame(names, <<>>))
    ELSE LET cols == IF names = <<>> THEN file.header ELSE names
         IN  Ok(Frame(cols,
                       [r \in 1..Len(file.rows) |->
                       [c \in Range(cols) |->
                          file.rows[r][CHOOSE n \in 1..Len(cols) : cols[n] = c]]]))

\* pd.read_csv(path, sep='\t', names=names): the labels are `names` when given,
\* else the header line; every data line becomes a row keyed by label; a file
\* with no line at all cannot be parsed
read_csv(file, names) ==
    IF ~file.exists THEN Raise("FileNotFoundError")
    ELSE IF file.header = <<>> /\ file.rows = <<>> THEN Raise("EmptyDataError")
    ELSE LET cols == IF names = <<>> THEN file.header ELSE names
         IN  Ok(Frame(cols,
                       [r \in 1..Len(file.rows) |->
                       [c \in Range(cols) |->
                          file.rows[r][CHOOSE n \in 1..Len(cols) : cols[n] = c]]]))

----------------------------------------------------------------------------
(* Writing a frame as text *)

\* dtype of the BED coordinates after read_csv: int64, written in decimal
IntLabels == {"Start", "End"}

Str(label, cell) == IF label \in IntLabels THEN <<ToString(cell)>> ELSE cell

\* csv.writer, QUOTE_MINIMAL with quotechar '"', doublequote=False and no
\* escapechar: a field holding the delimiter or a line break is wrapped in
\* quotes; a field holding the quote character cannot be written
CsvField(s) ==
    IF QUOTE \in Range(s) THEN [err |-> "csv.Error", text |-> <<>>]
    ELSE IF TAB \in Range(s) \/ NL \in Range(s)
         THEN [err |-> "none", text |-> <<QUOTE>> \o s \o <<QUOTE>>]
         ELSE [err |-> "none", text |-> s]

RECURSIVE CsvLine(_, _)
CsvLine(cols, row) ==
    IF cols = <<>> THEN [err |-> "none", text |-> <<NL>>]
    ELSE LET f == CsvField(Str(Head(cols), row[Head(cols)]))
             rest == CsvLine(Tail(cols), row)
         IN  IF f.err # "none" THEN f
             ELSE IF rest.err # "none" THEN rest
             ELSE [err |-> "none",
                   text |-> f.text \o (IF Len(cols) > 1 THEN <<TAB>> ELSE <<>>) \o rest.text]

\* the rows in order; the text written before a row that cannot be written stays
RECURSIVE CsvRows(_, _)
CsvRows(cols, rows) ==
    IF rows = <<>> THEN [err |-> "none", text |-> <<>>]
    ELSE LET line == CsvLine(cols, Head(rows))
         IN  IF line.err # "none" THEN line
             ELSE LET rest == CsvRows(cols, Tail(rows))
                  IN  [err |-> rest.err, text |-> line.text \o rest.text]

WriteFile(fsys, path, text) ==
    [q \in DOMAIN fsys \cup {path} |-> IF q = path THEN text ELSE fsys[q]]

\* df.to_csv(path, sep='\t', header=False, index=False, doublequote=False):
\* opening the file may fail (directory missing, not writable); once open the
\* file is truncated and holds whatever was written when the call ends
to_csv(df, path, fsys, openOk) ==
    IF ~openOk THEN [err |-> "OSError", fs |-> fsys]
    ELSE LET out == CsvRows(df.columns, df.rows)
         IN  [err |-> out.err, fs |-> WriteFile(fsys, path, out.text)]

----------------------------------------------------------------------------
(* column_to_bedgraph *)

\* Variant of IsValueColumn: the guard of line 34 left out
IsValueColumnAlways(column_name) == TRUE

IsValueColumn(column_name) == column_name # KEY

\* Variant of OutputPath: the directory taken from the annotation's path
OutputPathFromAnnotation(argv, column_name) ==
    LET l == Split(argv[2], SLASH)
        path == Flatten([n \in 1..(Len(l) - 1) |-> l[n] \o <<SLASH>>])
    IN  path \o <<column_name \o ".bedgraph">>

\* lines 47-54: every piece of arg[1] split at "/" but the last, each followed
\* by "/", then the file name
OutputPath(argv, column_name) ==
    LET l == Split(argv[1], SLASH)
        path == Flatten([n \in 1..(Len(l) - 1) |-> l[n] \o <<SLASH>>])
    IN  path \o <<column_name \o ".bedgraph">>

\* The frames a call can reach: the two module-level tables and the local t_df.
Heap(t, b, d) == [tsv |-> t, bed |-> b, t_df |-> d]

Bound(h, r) == [err |-> r.err, h |-> [h EXCEPT !.t_df = r.df]]

\* line 37
ProjectColumn(h, column_name) == Bound(h, Select(h.tsv, <<KEY, column_name>>))

\* line 40
AddCoordinates(h) == Bound(h, pd_merge(h.t_df, h.bed, KEY))

\* X.drop([name], axis=1, inplace=True): the object named `target` itself changes
DropInplace(h, target, name) ==
    LET r == Drop(h[target], name)
    IN  IF r.err # "none" THEN [err |-> r.err, h |-> h]
        ELSE [err |-> "none", h |-> [h EXCEPT ![target] = r.df]]

\* Variant of DropKey: the key column dropped from the loaded value table
DropKeyFromTsv(h) == DropInplace(h, "tsv", KEY)

\* line 43: t_df is the frame the merge returned
DropKey(h) == DropInplace(h, "t_df", KEY)

\* Variant of ToBedgraphOrder: start and end exchanged
ToBedgraphOrderSwapped(h, column_name) ==
    Bound(h, Loc(h.t_df, <<"Chromosome", "End", "Start", column_name>>))

\* line 44
ToBedgraphOrder(h, column_name) ==
    Bound(h, Loc(h.t_df, <<"Chromosome", "Start", "End", column_name>>))

\* lines 36-44
BuildFrame(h, column_name) ==
    LET s37 == ProjectColumn(h, column_name)
        s40 == AddCoordinates(s37.h)
        s43 == DropKey(s40.h)
        s44 == ToBedgraphOrder(s43.h, column_name)
    IN  IF s37.err # "none" THEN s37
        ELSE IF s40.err # "none" THEN s40
        ELSE IF s43.err # "none" THEN s43
        ELSE s44

column_to_bedgraph(column_name, t, b, argv, fsys, openOk) ==
    IF ~IsValueColumn(column_name)
    THEN [err |-> "none", tsv |-> t, bed |-> b, fs |-> fsys]
    ELSE LET built == BuildFrame(Heap(t, b, Unloaded), column_name)
         IN  IF built.err # "none"
             THEN [err |-> built.err, tsv |-> built.h.tsv, bed |-> built.h.bed, fs |-> fsys]
             ELSE LET w == to_csv(built.h.t_df, OutputPath(argv, column_name), fsys, openOk)
                  IN  [err |-> w.err, tsv |-> built.h.tsv, bed |-> built.h.bed, fs |-> w.fs]

----------------------------------------------------------------------------
(* The script *)

\* Variant of Propagate: the exception is caught and the loop goes on
Swallow(kind) == [pc |-> "loop", error |-> "none"]

\* no exception is caught: the first one ends the run
Propagate(kind) == [pc |-> "aborted", error |-> kind]

LoadTsv ==
    /\ pc = "load_tsv"
    /\ LET r == read_csv(tsvFile, <<>>)
       IN  IF r.err = "none"
           THEN tsv' = r.df /\ pc' = "load_bed" /\ error' = error
           ELSE tsv' = tsv /\ pc' = Propagate(r.err).pc /\ error' = Propagate(r.err).error
    /\ UNCHANGED <<arg, tsvFile, bedFile, fs, bed, i>>

LoadBed ==
    /\ pc = "load_bed"
    /\ LET r == read_csv(bedFile, BedNames)
       IN  IF r.err = "none"
           THEN bed' = r.df /\ pc' = "loop" /\ error' = error
           ELSE bed' = bed /\ pc' = Propagate(r.err).pc /\ error' = Propagate(r.err).error
    /\ UNCHANGED <<arg, tsvFile, bedFile, fs, tsv, i>>

\* one iteration of the loop of lines 73-74
EmitColumn ==
    /\ pc = "loop"
    /\ i <= Len(tsv.columns)
    /\ \E openOk \in BOOLEAN :
         LET r == column_to_bedgraph(tsv.columns[i], tsv, bed, arg, fs, openOk)
             after == IF r.err = "none" THEN [pc |-> "loop", error |-> error]
                      ELSE Propagate(r.err)
         IN  /\ tsv' = r.tsv
             /\ bed' = r.bed
             /\ fs' = r.fs
             /\ pc' = after.pc
             /\ error' = after.error
             /\ i' = IF after.pc = "loop" THEN i + 1 ELSE i
    /\ UNCHANGED <<arg, tsvFile, bedFile>>

Finish ==
    /\ pc = "loop"
    /\ i > Len(tsv.columns)
    /\ pc' = "done"
    /\ UNCHANGED <<arg, tsvFile, bedFile, fs, tsv, bed, i, error>>

Next == LoadTsv \/ LoadBed \/ EmitColumn \/ Finish

----------------------------------------------------------------------------
(* Inputs *)

Names == {"peak_id", "stageA", "stageB", "Chromosome"}
Keys == {"p1", "p2"}
Seeds == {1, 2}

SeqsUpTo(S, n) == UNION {[1..m -> S] : m \in 0..n}

Injective(s) == \A m, n \in 1..Len(s) : s[m] = s[n] => m = n

\* read_csv renames repeated header fields, so the labels are distinct
Headers(n) == {h \in SeqsUpTo(Names, n) : h # <<>> /\ Injective(h)}

ValueCell(c, seed) ==
    IF c = "stageA" THEN (IF seed = 1 THEN <<"10">> ELSE <<"30">>)
    ELSE IF c = "stageB" THEN (IF seed = 1 THEN <<"20">> ELSE <<"40">>)
    ELSE (IF seed = 1 THEN <<"chrX">> ELSE <<"chrY">>)

TsvLine(header, key, seed) ==
    [n \in 1..Len(header) |->
        IF header[n] = KEY THEN <<key>> ELSE ValueCell(header[n], seed)]

TsvFile(h, ks) == File(h, [n \in 1..Len(ks) |-> TsvLine(h, ks[n][1], ks[n][2])])

\* value tables of every shape (any labels in any order, with or without the key
\* column), empty or with one row
WideTsvFiles == {TsvFile(h, ks) : h \in Headers(MaxCols), ks \in {<<>>, << <<"p1", 1>> >>}}

\* value tables of every content (repeated, unmatched and equal rows) under two
\* headers, the key column first or not
LongHeaders == {<<"peak_id", "stageA", "stageB">>, <<"stageA", "peak_id">>}

LongTsvFiles ==
    {TsvFile(h, ks) : h \in LongHeaders, ks \in SeqsUpTo(Keys \X Seeds, MaxTsvRows)}

BedLines == {<< <<"chr1">>, se[1], se[2], <<k>> >> : se \in {<<100, 200>>, <<300, 400>>}, k \in Keys}

BedFiles == {File(<<>>, rows) : rows \in SeqsUpTo(BedLines, MaxBedRows)}

OneBedFile == File(<<>>, << << <<"chr1">>, 100, 200, <<"p1">> >> >>)

EmptyFS == [p \in {} |-> <<>>]

Start ==
    /\ tsv = Unloaded
    /\ bed = Unloaded
    /\ pc = "load_tsv"
    /\ i = 1
    /\ error = "none"

Init ==
    /\ arg = << <<"d", SLASH, "f.tsv">>, <<"e", SLASH, "g.bed">> >>
    /\ \/ tsvFile \in WideTsvFiles /\ bedFile \in {OneBedFile, NoFile}
       \/ tsvFile \in LongTsvFiles \cup {NoFile} /\ bedFile \in BedFiles
    /\ fs = EmptyFS
    /\ Start

Spec == Init /\ [][Next]_vars

----------------------------------------------------------------------------
(* Inputs whose cells hold the characters csv treats specially *)

FmtCells == {<<"10">>, <<"a", TAB, "b">>, <<"a", QUOTE, "b">>, <<"a", NL, "b">>}

FmtTsvFiles ==
    {File(<<"peak_id", "stageA">>, [n \in 1..Len(cs) |-> << <<"p1">>, cs[n] >>]) :
        cs \in SeqsUpTo(FmtCells, MaxFmtRows)}

FmtBedFiles ==
    {File(<<>>, << << <<"chr1">>, se[1], se[2], <<"p1">> >> >>) : se \in {<<100, 200>>, <<300, 400>>}}

InitFormat ==
    /\ arg = << <<"d", SLASH, "f.tsv">>, <<"e", SLASH, "g.bed">> >>
    /\ tsvFile \in FmtTsvFiles
    /\ bedFile \in FmtBedFiles
    /\ fs = EmptyFS
    /\ Start

SpecFormat == InitFormat /\ [][Next]_vars

----------------------------------------------------------------------------
(* Program arguments of every shape, inputs that may be missing, and an output
   directory that may already hold a file of an earlier run *)

PathTokens == {SLASH, "d", "f"}
Paths == SeqsUpTo(PathTokens, MaxPathLen)
AnnotationPaths == {<<"g">>, <<"e", SLASH, "g">>}

\* open() succeeds only on a path that names a file: not empty, no trailing "/"
NamesAFile(path) == path # <<>> /\ path[Len(path)] # SLASH

PathTsvFile == File(<<"stageA", "peak_id", "stageB">>, << << <<"10">>, <<"p1">>, <<"20">> >> >>)

StaleText == <<"stale", NL>>

InitPath ==
    /\ arg \in {<<a1, a2>> : a1 \in Paths, a2 \in AnnotationPaths}
    /\ tsvFile \in {PathTsvFile, NoFile}
    /\ tsvFile.exists => NamesAFile(arg[1])
    /\ bedFile \in {OneBedFile, NoFile}
    /\ fs \in {EmptyFS, WriteFile(EmptyFS, OutputPath(arg, "stageA"), StaleText)}
    /\ Start

SpecPath == InitPath /\ [][Next]_vars

----------------------------------------------------------------------------
(* Reading the state as the claims speak of it *)

\* the lines of a text, each without its terminator
FileLines(text) == LET pieces == Split(text, NL) IN SubSeq(pieces, 1, Len(pieces) - 1)

FieldsOf(line) == Split(line, TAB)

\* os.path.dirname, os.path.join and the collapsing of repeated separators
AllSlashes(p) == \A n \in 1..Len(p) : p[n] = SLASH

RECURSIVE StripSlashes(_)
StripSlashes(p) ==
    IF p # <<>> /\ p[Len(p)] = SLASH THEN StripSlashes(SubSeq(p, 1, Len(p) - 1)) ELSE p

DirName(p) ==
    LET at == {n \in 1..Len(p) : p[n] = SLASH}
        last == IF at = {} THEN 0 ELSE CHOOSE n \in at : \A m \in at : m <= n
        head == SubSeq(p, 1, last)
    IN  IF AllSlashes(head) THEN head ELSE StripSlashes(head)

Join(dir, name) ==
    IF dir = <<>> THEN <<name>>
    ELSE IF dir[Len(dir)] = SLASH THEN dir \o <<name>>
    ELSE dir \o <<SLASH, name>>

RECURSIVE Collapse(_)
Collapse(p) ==
    IF Len(p) < 2 THEN p
    ELSE IF p[1] = SLASH /\ p[2] = SLASH THEN Collapse(Tail(p))
    ELSE <<p[1]>> \o Collapse(Tail(p))

\* exactly two leading separators are kept apart from one (POSIX)
Norm(p) ==
    IF Len(p) >= 2 /\ p[1] = SLASH /\ p[2] = SLASH /\ (Len(p) = 2 \/ p[3] # SLASH)
    THEN <<SLASH>> \o Collapse(p)
    ELSE Collapse(p)

BedgraphName(c) == c \o ".bedgraph"

\* <directory component of the first argument>/<column_name>.bedgraph
ExpectedPath(c) == Norm(Join(DirName(arg[1]), BedgraphName(c)))

FilesAt(q) == {p \in DOMAIN fs : Norm(p) = q}

HasKeyColumn == KEY \in Range(tsv.columns)

\* the value columns whose call has returned
Emitted == {tsv.columns[n] : n \in {m \in 1..Len(tsv.columns) : m < i}} \ {KEY}

WrittenFile(c) == \E p \in FilesAt(ExpectedPath(c)) : TRUE

TextOf(c) == fs[CHOOSE p \in FilesAt(ExpectedPath(c)) : TRUE]

\* the file of column c as a reader of bedGraph sees it: one tuple of
\* tab-separated fields per line
ParsedFile(c) ==
    LET lines == FileLines(TextOf(c))
    IN  [n \in 1..Len(lines) |-> FieldsOf(lines[n])]

TsvRows == 1..Len(tsv.rows)
BedRows == 1..Len(bed.rows)

Partners(r) == {a \in BedRows : bed.rows[a][KEY] = tsv.rows[r][KEY]}

\* the bedGraph row of annotation row a and the cell of value row r in column c
BedgraphRow(a, r, c) ==
    << bed.rows[a]["Chromosome"], <<ToString(bed.rows[a]["Start"])>>,
       <<ToString(bed.rows[a]["End"])>>, tsv.rows[r][c] >>

IoErrors == {"FileNotFoundError", "EmptyDataError", "OSError"}

----------------------------------------------------------------------------
(* Claims *)

\* C1 (P1, join correctness): once the file of a value column is written, it
\* holds, for every value row whose key occurs exactly once in the annotation,
\* a line whose tab-separated fields are exactly chromosome, start, end of the
\* matching annotation row and the row's cell in that column, in this order.
C1_JoinCorrectness ==
    \A c \in Emitted :
        /\ HasKeyColumn
        /\ WrittenFile(c)
        /\ LET lines == ParsedFile(c)
           IN  \A r \in TsvRows :
                  Cardinality(Partners(r)) = 1 =>
                     \E n \in 1..Len(lines) :
                        lines[n] = BedgraphRow(CHOOSE a \in Partners(r) : TRUE, r, c)

C1_Witness ==
    /\ pc = "done"
    /\ Emitted # {}
    /\ \E r \in TsvRows : Cardinality(Partners(r)) = 1

\* C2 (P2, unmatched-key drop): every line of every output file is built from
\* a value row and an annotation row with the same key, so a value row whose
\* key the annotation lacks leaves no line; such a row raises nothing (a run
\* aborts only on an input or write failure or on a column label the frame
\* lacks), and a run that ends has written the file of every value column.
C2_UnmatchedDropped ==
    /\ \A c \in Emitted :
          /\ WrittenFile(c)
          /\ LET lines == ParsedFile(c)
             IN  \A n \in 1..Len(lines) :
                    \E r \in TsvRows : \E a \in Partners(r) : lines[n] = BedgraphRow(a, r, c)
    /\ pc = "aborted" =>
          \/ error \in IoErrors
          \/ /\ error = "KeyError"
             /\ \/ ~HasKeyColumn
                \/ tsv.columns[i] \in {"Chromosome", "Start", "End"}
    /\ pc = "done" => Emitted = Range(tsv.columns) \ {KEY}

C2_Witness ==
    /\ pc = "done"
    /\ error = "none"
    /\ Cardinality(Emitted) = 2
    /\ \E r \in TsvRows : Partners(r) = {}
    /\ \E r \in TsvRows : Partners(r) # {}

\* C3 (P4, column completeness), as claimed: whatever the labels of a value
\* table that has the key column, a run that meets no input or write failure
\* completes, and the files it has produced are exactly <label>.bedgraph for
\* the labels other than peak_id, one fewer than the table has columns.
C3_ColumnCompleteness ==
    (pc \in {"done", "aborted"} /\ error \notin IoErrors /\ HasKeyColumn) =>
        /\ pc = "done"
        /\ \A p \in DOMAIN fs : \E c \in Range(tsv.columns) \ {KEY} : Norm(p) = ExpectedPath(c)
        /\ \A c \in Range(tsv.columns) \ {KEY} : WrittenFile(c)
        /\ Cardinality(DOMAIN fs) = Len(tsv.columns) - 1

\* C4 (P3, key-column exclusion): the call for the column peak_id changes
\* neither the file system nor the tables and raises nothing, and no file
\* named peak_id.bedgraph exists in any state.
C4_KeyColumnExclusion ==
    /\ [](\A p \in DOMAIN fs : p[Len(p)] # BedgraphName(KEY))
    /\ [][(pc = "loop" /\ i <= Len(tsv.columns) /\ tsv.columns[i] = KEY) =>
             (fs' = fs /\ tsv' = tsv /\ bed' = bed /\ error' = error /\ pc' = "loop")]_vars

C4_Witness ==
    /\ pc = "done"
    /\ \E n \in 1..Len(tsv.columns) : tsv.columns[n] = KEY /\ n > 1
    /\ Emitted # {}

\* C5 (P5, format fidelity), as claimed: every line of every output file has
\* exactly 4 tab-separated fields and no file holds a quote character,
\* whatever characters the cells hold.
C5_FormatFidelity ==
    \A p \in DOMAIN fs :
        /\ QUOTE \notin Range(fs[p])
        /\ \A n \in 1..Len(FileLines(fs[p])) : Len(FieldsOf(FileLines(fs[p])[n])) = 4

\* C6 (output location): for every first argument the path computed for a
\* column names the file <column>.bedgraph in the directory component of that
\* argument, and a step changes the file system only there, for the column at
\* hand; the second argument plays no part.
C6_OutputLocation ==
    /\ [](\A c \in Names : Norm(OutputPath(arg, c)) = ExpectedPath(c))
    /\ [][\A p \in DOMAIN fs' :
             (p \notin DOMAIN fs \/ fs'[p] # fs[p]) =>
                (pc = "loop" /\ i <= Len(tsv.columns) /\ Norm(p) = ExpectedPath(tsv.columns[i]))]_vars

C6_Witness ==
    /\ pc = "done"
    /\ arg[1] = <<"f">>
    /\ arg[2] = <<"e", SLASH, "g">>
    /\ DOMAIN fs = {<<"stageA.bedgraph">>, <<"stageB.bedgraph">>}
    /\ fs[<<"stageA.bedgraph">>] # StaleText

\* C7 (InputNotFound): a run whose value table or annotation is missing never
\* enters the loop and ends aborted, and the file system changes only in the
\* loop, after both tables were loaded from files that exist.
C7_InputNotFoundBeforeOutput ==
    /\ []((~tsvFile.exists \/ ~bedFile.exists) => pc \in {"load_tsv", "load_bed", "aborted"})
    /\ [](error = "FileNotFoundError" => pc = "aborted")
    /\ [][fs' # fs => (pc = "loop" /\ tsvFile.exists /\ bedFile.exists
                        /\ tsv # Unloaded /\ bed # Unloaded)]_vars

C7_Witness ==
    /\ pc = "aborted"
    /\ error = "FileNotFoundError"
    /\ tsvFile.exists
    /\ ~bedFile.exists
    /\ \E p \in DOMAIN fs : fs[p] = StaleText

\* the value rows with key k whose cell in column c is among vs, and the
\* annotation rows with key k whose coordinates are among xs
ValueRowsOf(k, c, vs) == {r \in TsvRows : tsv.rows[r][KEY] = k /\ tsv.rows[r][c] \in vs}

Coordinates(a) == <<bed.rows[a]["Chromosome"], bed.rows[a]["Start"], bed.rows[a]["End"]>>

AnnotationRowsOf(k, xs) == {a \in BedRows : bed.rows[a][KEY] = k /\ Coordinates(a) \in xs}

RECURSIVE SumOfProducts(_, _, _, _)
SumOfProducts(ks, c, vs, xs) ==
    IF ks = {} THEN 0
    ELSE LET k == CHOOSE x \in ks : TRUE
         IN  Cardinality(ValueRowsOf(k, c, vs)) * Cardinality(AnnotationRowsOf(k, xs))
             + SumOfProducts(ks \ {k}, c, vs, xs)

AllKeys == {tsv.rows[r][KEY] : r \in TsvRows} \cup {bed.rows[a][KEY] : a \in BedRows}
AllCells(c) == {tsv.rows[r][c] : r \in TsvRows}
AllCoordinates == {Coordinates(a) : a \in BedRows}

LinesWith(lines, x, v) ==
    {n \in 1..Len(lines) : lines[n] = <<x[1], <<ToString(x[2])>>, <<ToString(x[3])>>, v>>}

\* C8 (cartesian expansion): in the file of a value column the number of lines
\* is the sum over the keys k of (value rows with key k) x (annotation rows
\* with key k), and the same holds line by line: a line (coordinates, value)
\* occurs as often as the keys give pairs of a value row with that value and
\* an annotation row with those coordinates; nothing is de-duplicated.
C8_CartesianExpansion ==
    \A c \in Emitted :
        /\ HasKeyColumn
        /\ WrittenFile(c)
        /\ LET lines == ParsedFile(c)
           IN  /\ Len(lines) = SumOfProducts(AllKeys, c, AllCells(c), AllCoordinates)
               /\ \A v \in AllCells(c) : \A x \in AllCoordinates :
                      Cardinality(LinesWith(lines, x, v)) = SumOfProducts(AllKeys, c, {v}, {x})

C8_Witness ==
    /\ pc = "done"
    /\ Emitted # {}
    /\ \E k \in AllKeys : \E c \in Emitted :
          /\ Cardinality(ValueRowsOf(k, c, AllCells(c))) = 2
          /\ Cardinality(AnnotationRowsOf(k, AllCoordinates)) = 2
          /\ Len(ParsedFile(c)) = 4
          /\ \E v \in AllCells(c) : \E x \in AllCoordinates :
                Cardinality(LinesWith(ParsedFile(c), x, v)) = 4

ValueColumns == SelectSeq(tsvFile.header, LAMBDA c : c # KEY)

\* C9 (ordered emission, partial output): in every state the files present are
\* those of the first n value columns, in the value table's column order, for
\* some n; a step neither removes nor alters a file written before; a failed
\* write ends the run, and an ended run writes nothing more.
C9_OrderedEmission ==
    /\ [](\E n \in 0..Len(ValueColumns) :
             /\ \A m \in 1..n : WrittenFile(ValueColumns[m])
             /\ \A p \in DOMAIN fs : \E m \in 1..n : Norm(p) = ExpectedPath(ValueColumns[m]))
    /\ [](error = "OSError" => pc = "aborted")
    /\ [][(\A p \in DOMAIN fs : p \in DOMAIN fs' /\ fs'[p] = fs[p])
          /\ Cardinality(DOMAIN fs') <= Cardinality(DOMAIN fs) + 1
          /\ (pc = "aborted" => fs' = fs)]_vars

C9_Witness ==
    /\ pc = "aborted"
    /\ error = "OSError"
    /\ Len(ValueColumns) = 2
    /\ WrittenFile(ValueColumns[1])
    /\ ~WrittenFile(ValueColumns[2])

\* what one call for column c writes when given the tables as loaded from disk
AloneText(c) ==
    LET t == read_csv(tsvFile, <<>>).df
        b == read_csv(bedFile, BedNames).df
    IN  column_to_bedgraph(c, t, b, arg, EmptyFS, TRUE).fs[OutputPath(arg, c)]

\* C10 (tables read-only): no call of column_to_bedgraph changes the value
\* table or the annotation table, whatever the column, and the file of a
\* column is what a call for that column alone writes from the loaded tables.
C10_TablesReadOnly ==
    /\ [][pc = "loop" => (tsv' = tsv /\ bed' = bed)]_vars
    /\ [](\A c \in Emitted : WrittenFile(c) /\ TextOf(c) = AloneText(c))

C10_Witness ==
    /\ pc = "done"
    /\ Cardinality(Emitted) = 2
    /\ Len(tsv.rows) = 2
    /\ \E c \in Emitted : TextOf(c) # <<>>

====
